---- MODULE Spec2Model ----
(***************************************************************************)
(* Model of the giveaway helper bot (bot.py).                              *)
(*                                                                         *)
(* State: the in-memory registry GIVEAWAYS (a Python dict, kept here as    *)
(* the sequence of its entries in dict order), the job store of the        *)
(* background scheduler, the clock, and the last reply a handler sent.     *)
(*                                                                         *)
(* Handlers run one at a time on the application's event loop, so each     *)
(* handler is one action.  A reminder job runs on a scheduler thread: its  *)
(* callback (read the record, check archived, create the send task) is     *)
(* one action, and the send task the application runs later is another.    *)
(*                                                                         *)
(* Time is counted in abstract ticks (one tick = one minute of the         *)
(* remind delay); a day has DayLen ticks.  The host's local timezone is    *)
(* taken to be the scheduler's timezone.                                   *)
(***************************************************************************)
EXTENDS Integers, Sequences, FiniteSets, TLC

\* ------------------------------------------------------------- bounds
MaxLen == 4
MaxClock == 2
DayLen == 2
MaxJobs == 1

\* ------------------------------------------------------------- constants
\* active[:20] in list_cmd
LIST_LIMIT == 20
\* The scheduler is built with its default job settings: a job whose run time
\* is missed by more than one second is skipped.  One second is below the
\* clock's resolution, hence 0 ticks.
MISFIRE_GRACE == 0

\* Optional values (Python None / a value)
None == {}
Some(x) == {x}

\* ------------------------------------------------------------- inputs
\* str(uuid4())[:8]: any of the identifiers may be drawn, also one in use
Ids == {"a1", "b2"}
Chats == {"chat1"}
\* The minutes field of a remind token
MinuteWords == {"-1", "0", "1"}
\* callback data, split at ":".  The last four do not have the form
\* remind:<id>:<minutes> or archive:<id>.
Tokens ==
    {<<"remind", g, m>> : g \in Ids, m \in MinuteWords}
      \cup {<<"archive", g>> : g \in Ids}
      \cup {<<"remind", "a1">>, <<"remind", "a1", "x">>, <<"archive", "a1", "x">>, <<"noop">>}

\* Words of a message text.  A text is a sequence of words separated by spaces.
\* Cyrillic words are written in Latin letters: "do", "zakanch", "priz", ...
TimeWords == {"09:00", "18:00"}
UrlWords == {"https://a", "HTTP://b"}

\* The messages the message handler is fed in the full system model: the text
\* (msg.text or msg.caption or ""), and msg.forward_from_chat.title, or None
\* when the message is not forwarded.
Msg(text, title) == [text |-> text, title |-> title]

Messages == { Msg(<< >>, None),
              Msg(<<"hello", "do", "18:00">>, Some("Chan")),
              Msg(<<"Giveaway", "do", "09:00">>, Some("Chan")),
              Msg(<<"HTTP://b", "https://a">>, None) }

\* call holds one call of extract_deadline on its own: the text, the clock and,
\* once the call has returned, the result.  The bot itself leaves it alone.
VARIABLES GIVEAWAYS, jobs, now, out, everArchived, call

sysvars == <<GIVEAWAYS, jobs, now, out, everArchived>>

vars == <<GIVEAWAYS, jobs, now, out, everArchived, call>>

\* ------------------------------------------------------------- text
\* str.lower() on a word
Lower(w) ==
    CASE w = "Giveaway" -> "giveaway"
      [] w = "HTTP://b" -> "http://b"
      [] OTHER -> w

\* KEYWORDS: the lower-cased words the word-boundary patterns match
KEYWORDS == {"giveaway", "rozygrysh", "gift", "gifts", "star", "stars", "priz",
             "portal_ru", "portals_ru", "portals", "ton_ru", "ton"}

\* URL_REGEX with re.IGNORECASE: http:// or https:// and at least one more character
IsUrl(w) == \E u \in UrlWords : Lower(w) = Lower(u)

extract_links(text) == SelectSeq(text, IsUrl)

matches_keywords(text) == \E i \in DOMAIN text : Lower(text[i]) \in KEYWORDS

\* ------------------------------------------------------------- dates
\* The tick of the day a time-of-day word names
Slot(w) == IF w = "09:00" THEN 0 ELSE 1

DayStart(t) == (t \div DayLen) * DayLen

\* dateparser.parse(phrase, dayfirst=True, fuzzy=True), evaluated at clock t:
\* a phrase holding one valid time of day is that time on the current day (the
\* default date is today); words that are no date part are skipped; an invalid
\* time ("99:99") or no date part at all raises, which is None here.
ParseDate(phrase, t) ==
    LET times == {i \in DOMAIN phrase : phrase[i] \in TimeWords}
    IN  IF \E i \in DOMAIN phrase : phrase[i] = "99:99" THEN None
        ELSE IF Cardinality(times) # 1 THEN None
        ELSE Some(DayStart(t) + Slot(phrase[CHOOSE i \in times : TRUE]))

\* A word the pattern \d{1,2}[:.]\d{2} matches
IsClock(w) == w \in TimeWords \cup {"99:99"}

Rest(text, i) == SubSeq(text, i, Len(text))

\* re.search of each DEADLINE_HINTS pattern: the captured phrase, or None.
\* 1: "do" followed by a clock word;  2: "deadline:" and the rest of the line;
\* 3: "zakanch" and the first clock word after it.
HintMatch(k, text) ==
    LET hits ==
          CASE k = 1 -> {i \in DOMAIN text : /\ text[i] = "do"
                                             /\ i < Len(text)
                                             /\ IsClock(text[i + 1])}
            [] k = 2 -> {i \in DOMAIN text : text[i] = "deadline:" /\ i < Len(text)}
            [] OTHER -> {i \in DOMAIN text : /\ text[i] = "zakanch"
                                             /\ \E j \in DOMAIN text : j > i /\ IsClock(text[j])}
        first == CHOOSE i \in hits : \A j \in hits : i <= j
    IN  IF hits = {} THEN None
        ELSE CASE k = 1 -> Some(<<text[first + 1]>>)
               [] k = 2 -> Some(Rest(text, first + 1))
               [] OTHER -> Some(<<text[CHOOSE j \in DOMAIN text :
                                    /\ j > first /\ IsClock(text[j])
                                    /\ \A l \in DOMAIN text :
                                         (l > first /\ IsClock(text[l])) => j <= l]>>)

NumHints == 3

\* A loop that gives up at the first pattern that matches, also when its phrase
\* does not parse
HintLoop_NoContinue(k, text, t) ==
    LET hit == {j \in k..NumHints : HintMatch(j, text) # None}
    IN  IF hit = {} THEN None
        ELSE ParseDate(CHOOSE p \in HintMatch(CHOOSE j \in hit : \A l \in hit : j <= l, text) : TRUE, t)

\* The loop over DEADLINE_HINTS from pattern k on: the first pattern that matches
\* returns whatever its phrase parses to (a parse that returns is not compared
\* with the clock); a pattern whose phrase raises is skipped.
RECURSIVE HintLoop(_, _, _)
HintLoop(k, text, t) ==
    IF k > NumHints THEN None
    ELSE LET m == HintMatch(k, text)
         IN  IF m = None THEN HintLoop(k + 1, text, t)
             ELSE LET d == ParseDate(CHOOSE p \in m : TRUE, t)
                  IN  IF d # None THEN d ELSE HintLoop(k + 1, text, t)

extract_deadline(text, t) ==
    IF text = << >> THEN None
    ELSE LET dt == ParseDate(text, t)
         IN  IF dt # None /\ (\E d \in dt : d > t) THEN dt
             ELSE HintLoop(1, text, t)

\* ------------------------------------------------------------- registry
Keys(G) == {G[i].gid : i \in DOMAIN G}

Index(G, g) == CHOOSE i \in DOMAIN G : G[i].gid = g

\* GIVEAWAYS.get(gid) / GIVEAWAYS[gid]
Get(G, g) == G[Index(G, g)]

\* GIVEAWAYS[gid] = rec: a new key goes to the end of the dict, a key in use
\* keeps its place and gets the new value
SetItem(G, g, rec) ==
    IF g \in Keys(G) THEN [G EXCEPT ![Index(G, g)] = rec] ELSE Append(G, rec)

\* A creation that loses the source label
NewRecord_NoTitle(g, title, text, t) ==
    [gid |-> g, from_chat |-> None, text |-> text,
     links |-> extract_links(text), deadline |-> extract_deadline(text, t),
     archived |-> FALSE]

\* The dict literal handle_forward stores
NewRecord(g, title, text, t) ==
    [gid |-> g, from_chat |-> title, text |-> text,
     links |-> extract_links(text), deadline |-> extract_deadline(text, t),
     archived |-> FALSE]

\* An archive that flips the flag instead of setting it
MarkArchived_Toggle(G, g) == [G EXCEPT ![Index(G, g)].archived = ~@]

\* GIVEAWAYS[gid]["archived"] = True
MarkArchived(G, g) == [G EXCEPT ![Index(G, g)].archived = TRUE]

\* ------------------------------------------------------------- replies
Reply(kind, g, items) == [kind |-> kind, gid |-> g, items |-> items]

NoReply == Reply("none", "", << >>)

\* ------------------------------------------------------------- actions
Call(text, t, done, result) == [text |-> text, t |-> t, done |-> done, result |-> result]

NoCall == Call(<< >>, 0, FALSE, None)

Init ==
    /\ GIVEAWAYS = << >>
    /\ jobs = << >>
    /\ now = 0
    /\ out = NoReply
    /\ everArchived = {}
    /\ call = NoCall

is_giveaway(text) == matches_keywords(text) \/ extract_links(text) # << >>

handle_forward(msg, g) ==
    /\ IF ~is_giveaway(msg.text)
       THEN /\ out' = Reply("not_giveaway", "", << >>)
            /\ UNCHANGED GIVEAWAYS
       ELSE /\ out' = Reply("card", g, << >>)
            /\ GIVEAWAYS' = SetItem(GIVEAWAYS, g, NewRecord(g, msg.title, msg.text, now))
    /\ UNCHANGED <<jobs, now, everArchived>>

\* when = datetime.now() + timedelta(minutes=minutes)
RunDate(t, minutes) == t + minutes

NewJob(chat, g, when) == [chat_id |-> chat, gid |-> g, run_date |-> when, state |-> "pending"]

\* scheduler.add_job(job, "date", run_date=when): one more job in the job store
schedule_reminder(J, chat, g, minutes, t) == Append(J, NewJob(chat, g, RunDate(t, minutes)))

\* The registry after the archive branch
Archive(G, g) == IF g \in Keys(G) THEN MarkArchived(G, g) ELSE G

\* int(mins)
IsInt(s) == s \in MinuteWords

IntOf(s) ==
    CASE s = "-1" -> 0 - 1
      [] s = "0" -> 0
      [] OTHER -> 1

\* data.startswith("remind:") / data.startswith("archive:")
StartsWith(data, word) == Len(data) >= 2 /\ data[1] = word

\* The reply on_button ends with.  A token whose split does not unpack, or whose
\* minutes are no integer, raises before any reply; a token with neither prefix
\* falls through both branches.
ButtonReply(data) ==
    CASE StartsWith(data, "remind") ->
           IF Len(data) = 3 /\ IsInt(data[3])
           THEN Reply("remind_ack", data[2], << >>)
           ELSE Reply("raised", "", << >>)
      [] StartsWith(data, "archive") ->
           IF Len(data) = 2
           THEN Reply("archive_ack", data[2], << >>)
           ELSE Reply("raised", "", << >>)
      [] OTHER -> NoReply

on_button(chat, data) ==
    /\ out' = ButtonReply(data)
    /\ IF ButtonReply(data).kind = "remind_ack"
       THEN /\ Len(jobs) < MaxJobs
            /\ jobs' = schedule_reminder(jobs, chat, data[2], IntOf(data[3]), now)
            /\ UNCHANGED <<GIVEAWAYS, everArchived>>
       ELSE IF ButtonReply(data).kind = "archive_ack"
       THEN /\ GIVEAWAYS' = Archive(GIVEAWAYS, data[2])
            /\ everArchived' = IF data[2] \in Keys(GIVEAWAYS)
                               THEN everArchived \cup {data[2]} ELSE everArchived
            /\ UNCHANGED jobs
       ELSE UNCHANGED <<GIVEAWAYS, jobs, everArchived>>
    /\ UNCHANGED now

Min(a, b) == IF a <= b THEN a ELSE b

\* active = [(gid, g) for gid, g in GIVEAWAYS.items() if not g.get("archived")]
IsActive(e) == ~e.archived

Active(G) == SelectSeq(G, IsActive)

\* One line of the listing, named by the id it starts with
Line(e) == e.gid

\* The lines for active[:20]
Listing(G) ==
    LET shown == SubSeq(Active(G), 1, Min(LIST_LIMIT, Len(Active(G))))
    IN  [i \in DOMAIN shown |-> Line(shown[i])]

list_cmd ==
    /\ out' = IF Active(GIVEAWAYS) = << >>
              THEN Reply("no_active", "", << >>)
              ELSE Reply("list", "", Listing(GIVEAWAYS))
    /\ UNCHANGED <<GIVEAWAYS, jobs, now, everArchived>>

\* A callback that does not look at the archived flag
JobOutcome_NoArchivedCheck(G, j, t) ==
    IF t - j.run_date > MISFIRE_GRACE THEN "missed"
    ELSE IF j.gid \notin Keys(G) THEN "noop"
    ELSE "task"

\* What the scheduler does with a due job.  A run time missed by more than the
\* grace time is skipped without calling job(); otherwise job() runs: it returns
\* without effect when the record is absent or archived, else it creates the task
\* that sends the notification.
JobOutcome(G, j, t) ==
    IF t - j.run_date > MISFIRE_GRACE THEN "missed"
    ELSE IF j.gid \notin Keys(G) THEN "noop"
    ELSE IF Get(G, j.gid).archived THEN "noop"
    ELSE "task"

\* A job that has left the job store: a created task keeps the chat and the id it
\* was created for, every other outcome is only logged
Finished(j, outcome) ==
    [chat_id |-> IF outcome = "task" THEN j.chat_id ELSE "",
     gid |-> IF outcome = "task" THEN j.gid ELSE "",
     run_date |-> 0, state |-> outcome]

\* The scheduler thread takes a due job out of the store (a date job runs once)
job(i) ==
    /\ jobs[i].state = "pending"
    /\ now >= jobs[i].run_date
    /\ jobs' = [jobs EXCEPT ![i] = Finished(jobs[i], JobOutcome(GIVEAWAYS, jobs[i], now))]
    /\ UNCHANGED <<GIVEAWAYS, now, out, everArchived>>

\* The application runs the task: bot.send_message succeeds or fails, once
send_message(i, ok) ==
    /\ jobs[i].state = "task"
    /\ jobs' = [jobs EXCEPT ![i] = Finished(jobs[i], IF ok THEN "sent" ELSE "failed")]
    /\ UNCHANGED <<GIVEAWAYS, now, out, everArchived>>

\* The clock advances; the scheduler wakes for every job at its run time, so no
\* due job is still in the store when the next tick begins.
Tick ==
    /\ now < MaxClock
    /\ \A i \in DOMAIN jobs : jobs[i].state = "pending" => jobs[i].run_date > now
    /\ now' = now + 1
    /\ UNCHANGED <<GIVEAWAYS, jobs, out, everArchived>>

Next ==
    /\ \/ \E msg \in Messages, g \in Ids : handle_forward(msg, g)
       \/ \E chat \in Chats, data \in Tokens : on_button(chat, data)
       \/ list_cmd
       \/ \E i \in DOMAIN jobs : job(i)
       \/ \E i \in DOMAIN jobs, ok \in BOOLEAN : send_message(i, ok)
       \/ Tick
    /\ UNCHANGED call

Spec == Init /\ [][Next]_vars

\* ------------------------------------------------------------- extract_deadline alone
\* The words of the texts extract_deadline is called on
DeadlineWords == {"hello", "do", "deadline:", "zakanch", "09:00", "18:00", "99:99"}

RECURSIVE TextsUpTo(_)
TextsUpTo(n) ==
    IF n = 0 THEN {<< >>}
    ELSE LET shorter == TextsUpTo(n - 1)
         IN  shorter \cup {Append(s, w) : s \in shorter, w \in DeadlineWords}

\* The texts of at most MaxLen words that name at most one valid time of day
DeadlineTexts ==
    {s \in TextsUpTo(MaxLen) : Cardinality({i \in DOMAIN s : s[i] \in TimeWords}) <= 1}

InitDeadline ==
    /\ GIVEAWAYS = << >>
    /\ jobs = << >>
    /\ now = 0
    /\ out = NoReply
    /\ everArchived = {}
    /\ call \in {Call(text, t, FALSE, None) : text \in DeadlineTexts, t \in 0..MaxClock}

\* The call returns
call_extract_deadline ==
    /\ ~call.done
    /\ call' = Call(call.text, call.t, TRUE, extract_deadline(call.text, call.t))
    /\ UNCHANGED sysvars

NextDeadline == call_extract_deadline

SpecDeadline == InitDeadline /\ [][NextDeadline]_vars

\* ------------------------------------------------------------- claims
\* The classification stated on the words of a text: some word is a keyword, or
\* some word is a link
Candidate(text) ==
    \/ \E i \in DOMAIN text : Lower(text[i]) \in KEYWORDS
    \/ \E i \in DOMAIN text : IsUrl(text[i])

\* A token of the form remind:<id>:<minutes> or archive:<id>
WellFormed(data) ==
    \/ Len(data) = 3 /\ data[1] = "remind" /\ IsInt(data[3])
    \/ Len(data) = 2 /\ data[1] = "archive"

\* C1: once an archive action has set archived=True for an id, the callback of a
\* reminder job for that id creates no notification, whatever text, remind and
\* archive actions came in between.
C1_ArchiveSuppressesJob ==
    [][\A i \in DOMAIN jobs :
         (jobs[i].state = "pending" /\ jobs[i].gid \in everArchived)
            => jobs'[i].state # "task"]_vars

\* C2: creating a record never overwrites one: every record stored before
\* handle_forward runs is stored under its id, unchanged, afterwards.
C2_NoSilentOverwrite ==
    [][\A msg \in Messages, g \in Ids :
         handle_forward(msg, g)
            => \A k \in Keys(GIVEAWAYS) :
                  k \in Keys(GIVEAWAYS') /\ Get(GIVEAWAYS', k) = Get(GIVEAWAYS, k)]_vars

\* C3: the archived flag is monotonic: a record with archived=true under an id is
\* never followed by a record with archived=false under that id.
C3_ArchivedMonotonic ==
    [][\A k \in Keys(GIVEAWAYS) :
         Get(GIVEAWAYS, k).archived
            => (k \in Keys(GIVEAWAYS') /\ Get(GIVEAWAYS', k).archived)]_vars

\* C4: every registered job has its callback invoked exactly once, not before
\* fireAt = now + delay: a new job's run time is the clock plus the minutes; a job
\* leaves the store only by its callback being run, at or after its run time; and a
\* job that has left the store is not run again.
C4_CallbackExactlyOnce ==
    /\ [][\A chat \in Chats, data \in Tokens :
            (on_button(chat, data) /\ Len(jobs') > Len(jobs))
               => jobs'[Len(jobs')].run_date = now + IntOf(data[3])]_vars
    /\ [][\A i \in DOMAIN jobs :
            (jobs[i].state = "pending" /\ jobs'[i].state # "pending")
               => (jobs'[i].state # "missed" /\ now >= jobs[i].run_date)]_vars
    /\ [][\A i \in DOMAIN jobs :
            jobs[i].state # "pending"
               => jobs'[i].state \notin {"pending", "noop", "task", "missed"} \ {jobs[i].state}]_vars

\* C5: a remind or archive action on an id that is no key of the registry ends
\* with an acknowledgment that is not the success acknowledgment, does not raise,
\* and leaves the registry unchanged.
C5_UnknownIdAck ==
    [][\A chat \in Chats, data \in Tokens :
         (on_button(chat, data) /\ WellFormed(data) /\ data[2] \notin Keys(GIVEAWAYS))
            => /\ out'.kind \notin {"remind_ack", "archive_ack", "raised", "none"}
               /\ GIVEAWAYS' = GIVEAWAYS]_vars

\* C6: archive is idempotent: on an existing record that is not archived it sets
\* archived and changes nothing else; on an archived record or an id that is no key
\* it changes nothing in the registry and creates no record; it never raises.
C6_ArchiveIdempotent ==
    [][\A chat \in Chats, g \in Ids :
         on_button(chat, <<"archive", g>>)
            => /\ out'.kind = "archive_ack"
               /\ IF g \in Keys(GIVEAWAYS) /\ ~Get(GIVEAWAYS, g).archived
                  THEN /\ Len(GIVEAWAYS') = Len(GIVEAWAYS)
                       /\ \A i \in DOMAIN GIVEAWAYS :
                            GIVEAWAYS'[i] =
                               IF GIVEAWAYS[i].gid = g
                               THEN [GIVEAWAYS[i] EXCEPT !.archived = TRUE]
                               ELSE GIVEAWAYS[i]
                  ELSE GIVEAWAYS' = GIVEAWAYS]_vars

\* An archive action has just acted on an id whose record is archived, beside a
\* record that is still active
C6_Witness ==
    /\ out.kind = "archive_ack"
    /\ out.gid \in Keys(GIVEAWAYS)
    /\ Get(GIVEAWAYS, out.gid).archived
    /\ \E k \in Keys(GIVEAWAYS) : ~Get(GIVEAWAYS, k).archived

\* C7: handle_forward adds exactly one record if and only if the text has a
\* keyword or a link; otherwise the registry is unchanged and the reply is the
\* rejection.
C7_CreatesIffCandidate ==
    [][\A msg \in Messages, g \in Ids :
         handle_forward(msg, g)
            => IF Candidate(msg.text)
               THEN Len(GIVEAWAYS') = Len(GIVEAWAYS) + 1 /\ out'.kind = "card"
               ELSE GIVEAWAYS' = GIVEAWAYS /\ out'.kind = "not_giveaway"]_vars

\* C8: for a text "do HH:MM" extract_deadline returns HH:MM of a day, never an
\* instant before the clock; and no record is stored with a deadline before the
\* clock at its creation.
C8_DeadlineNotPast ==
    /\ [](\A w \in TimeWords :
            /\ extract_deadline(<<"do", w>>, now) # None
            /\ \A d \in extract_deadline(<<"do", w>>, now) :
                  d >= now /\ d % DayLen = Slot(w))
    /\ [][\A msg \in Messages, g \in Ids :
            (handle_forward(msg, g) /\ out'.kind = "card")
               => \A d \in Get(GIVEAWAYS', g).deadline : d >= now]_vars

\* C9: the listing shows only records that are not archived, at most 20, in the
\* order of the registry, and an id that was archived is in no later listing.
C9_ListActive ==
    [][list_cmd
         => /\ Len(out'.items) <= LIST_LIMIT
            /\ \A i \in DOMAIN out'.items :
                 /\ out'.items[i] \in Keys(GIVEAWAYS)
                 /\ ~Get(GIVEAWAYS, out'.items[i]).archived
                 /\ out'.items[i] \notin everArchived
            /\ \A i, j \in DOMAIN out'.items :
                 i < j => Index(GIVEAWAYS, out'.items[i]) < Index(GIVEAWAYS, out'.items[j])
            /\ \A k \in Keys(GIVEAWAYS) :
                 (~Get(GIVEAWAYS, k).archived /\ Len(GIVEAWAYS) <= LIST_LIMIT)
                    => \E i \in DOMAIN out'.items : out'.items[i] = k]_vars

\* C10: right after a record is created, the record under the returned id (the id
\* of the card reply) has archived=false and the source label, text, links and
\* deadline computed from the inbound message.
C10_CreateThenGet ==
    [][\A g \in Ids :
         out' = Reply("card", g, << >>)
            => \A msg \in Messages :
                 (Candidate(msg.text) /\ handle_forward(msg, g))
                    => /\ g \in Keys(GIVEAWAYS')
                       /\ Get(GIVEAWAYS', g) =
                            [gid |-> g, from_chat |-> msg.title, text |-> msg.text,
                             links |-> extract_links(msg.text),
                             deadline |-> extract_deadline(msg.text, now),
                             archived |-> FALSE]]_vars

\* A record with a source label and a deadline has just been created
C10_Witness ==
    /\ out.kind = "card"
    /\ out.gid \in Keys(GIVEAWAYS)
    /\ Get(GIVEAWAYS, out.gid).from_chat # None
    /\ Get(GIVEAWAYS, out.gid).deadline # None
    /\ ~Get(GIVEAWAYS, out.gid).archived

\* The record under id k is archived
IsArchived(G, k) == k \in Keys(G) /\ Get(G, k).archived

\* C11: in the Archived state of an id a remind action is still accepted (a job
\* is registered and acknowledged), the callback of a job for that id creates no
\* notification, a further archive action changes nothing, and no action leads
\* from Archived to another state.
C11_ArchivedIsTerminal ==
    /\ [][\A chat \in Chats, g \in Ids, m \in MinuteWords :
            (IsArchived(GIVEAWAYS, g) /\ on_button(chat, <<"remind", g, m>>))
               => /\ Len(jobs') = Len(jobs) + 1
                  /\ jobs'[Len(jobs')].gid = g
                  /\ out'.kind = "remind_ack"]_vars
    /\ [][\A i \in DOMAIN jobs :
            (job(i) /\ jobs[i].gid \in everArchived) => jobs'[i].state # "task"]_vars
    /\ [][\A chat \in Chats, g \in Ids :
            (IsArchived(GIVEAWAYS, g) /\ on_button(chat, <<"archive", g>>))
               => GIVEAWAYS' = GIVEAWAYS]_vars
    /\ [][\A k \in Ids : IsArchived(GIVEAWAYS, k) => IsArchived(GIVEAWAYS', k)]_vars

\* C12: a remind action with zero or negative minutes is not rejected: it
\* registers a job and is acknowledged, and the job's callback is invoked when
\* the scheduler takes the job.
C12_NonPositiveDelayFires ==
    /\ [][\A chat \in Chats, g \in Ids, m \in MinuteWords :
            (IntOf(m) <= 0 /\ on_button(chat, <<"remind", g, m>>))
               => /\ Len(jobs') = Len(jobs) + 1
                  /\ jobs'[Len(jobs')].state = "pending"
                  /\ out'.kind = "remind_ack"]_vars
    /\ [][\A i \in DOMAIN jobs :
            job(i) => jobs'[i].state \in {"noop", "task"}]_vars

\* A token with the fields of remind:<id>:<minutes> or archive:<id>, whatever
\* the fields hold
HasForm(data) ==
    \/ Len(data) = 3 /\ data[1] = "remind"
    \/ Len(data) = 2 /\ data[1] = "archive"

\* C13: every token remind:<id>:<minutes> or archive:<id> handled by on_button
\* ends with an acknowledgment (the message edit): the handler neither raises nor
\* ends silently.
C13_AlwaysAcknowledged ==
    [][\A chat \in Chats, data \in Tokens :
         (HasForm(data) /\ on_button(chat, data))
            => out'.kind \in {"remind_ack", "archive_ack"}]_vars

\* C14: no notification for an id is sent in a state where the record under
\* that id has archived=true.
C14_NoSendWhenArchived ==
    [][\A i \in DOMAIN jobs :
         send_message(i, TRUE) => ~IsArchived(GIVEAWAYS, jobs[i].gid)]_vars

\* C14, amended: the send task is created only by a callback whose check found
\* the record present with archived=false; a notification is sent only for such a
\* task, and an archive after the check does not stop it.
C14_SendOnlyAfterCheck ==
    /\ [][\A i \in DOMAIN jobs :
            (job(i) /\ jobs'[i].state = "task")
               => (jobs[i].gid \in Keys(GIVEAWAYS) /\ ~IsArchived(GIVEAWAYS, jobs[i].gid))]_vars
    /\ [][\A i \in DOMAIN jobs :
            jobs'[i].state = "sent" => jobs[i].state \in {"task", "sent"}]_vars
    /\ [][\A i \in DOMAIN jobs :
            jobs'[i].state = "task" => jobs[i].state \in {"pending", "task"}]_vars

\* A send task is waiting while the record it was created for has been archived
C14_Witness ==
    \E i \in DOMAIN jobs : jobs[i].state = "task" /\ IsArchived(GIVEAWAYS, jobs[i].gid)

\* C15: a remind action and a job firing leave every record unchanged; an
\* archive action changes at most the archived flag of its target; the listing
\* changes nothing; and no action removes a record or changes the id, source
\* label, text, links or deadline of a record.
C15_Frame ==
    /\ [][\A chat \in Chats, g \in Ids, m \in MinuteWords :
            on_button(chat, <<"remind", g, m>>) => GIVEAWAYS' = GIVEAWAYS]_vars
    /\ [][\A i \in DOMAIN jobs : job(i) => GIVEAWAYS' = GIVEAWAYS]_vars
    /\ [][\A i \in DOMAIN jobs, ok \in BOOLEAN :
            send_message(i, ok) => GIVEAWAYS' = GIVEAWAYS]_vars
    /\ [][list_cmd => <<GIVEAWAYS, jobs, now>>' = <<GIVEAWAYS, jobs, now>>]_vars
    /\ [][\A chat \in Chats, g \in Ids :
            on_button(chat, <<"archive", g>>)
               => \A k \in Keys(GIVEAWAYS) \ {g} : Get(GIVEAWAYS', k) = Get(GIVEAWAYS, k)]_vars
    /\ [][\A k \in Keys(GIVEAWAYS) :
            /\ k \in Keys(GIVEAWAYS')
            /\ [Get(GIVEAWAYS', k) EXCEPT !.archived = FALSE]
                 = [Get(GIVEAWAYS, k) EXCEPT !.archived = FALSE]]_vars

\* C17: reminder jobs are not deduplicated: every remind action registers one
\* more job for its chat and id, and the job of a record that exists and is not
\* archived creates one notification task, addressed to the chat of its remind
\* action, which is then sent once.
C17_OneNotificationPerRemind ==
    /\ [][\A chat \in Chats, g \in Ids, m \in MinuteWords :
            on_button(chat, <<"remind", g, m>>)
               => /\ Len(jobs') = Len(jobs) + 1
                  /\ SubSeq(jobs', 1, Len(jobs)) = jobs
                  /\ jobs'[Len(jobs')].chat_id = chat
                  /\ jobs'[Len(jobs')].gid = g]_vars
    /\ [][\A i \in DOMAIN jobs :
            (job(i) /\ jobs[i].gid \in Keys(GIVEAWAYS) /\ ~IsArchived(GIVEAWAYS, jobs[i].gid))
               => /\ jobs'[i].state = "task"
                  /\ jobs'[i].chat_id = jobs[i].chat_id
                  /\ jobs'[i].gid = jobs[i].gid]_vars
    /\ [][\A i \in DOMAIN jobs :
            jobs[i].state \in {"sent", "failed", "noop", "missed"} => jobs'[i] = jobs[i]]_vars

\* The phrase pattern k captures in the text
Captured(k, text) == CHOOSE p \in HintMatch(k, text) : TRUE

\* Pattern k matches the text and its captured phrase parses
HintSucceeds(k, text, t) ==
    HintMatch(k, text) # None /\ ParseDate(Captured(k, text), t) # None

\* C16: extract_deadline is layered, first success wins, and it never raises: the
\* parse of the whole text is the result only when it is strictly after the
\* clock; otherwise the result is the parse of the phrase of the first hint
\* pattern, in the order of the list, that matches and whose phrase parses; when
\* no step succeeds, and for the empty text, the result is absent.
C16_LayeredFirstSuccess ==
    call.done =>
       LET whole == ParseDate(call.text, call.t)
           wins == {k \in 1..NumHints : HintSucceeds(k, call.text, call.t)}
       IN  IF call.text = << >> THEN call.result = None
           ELSE IF whole # None /\ (\A d \in whole : d > call.t) THEN call.result = whole
           ELSE IF wins = {} THEN call.result = None
           ELSE \E k \in wins :
                   /\ \A j \in wins : k <= j
                   /\ call.result = ParseDate(Captured(k, call.text), call.t)

\* A call has returned the parse of a later pattern's phrase: the whole text did
\* not parse, and the first pattern matched a phrase that does not parse
C16_Witness ==
    /\ call.done
    /\ ParseDate(call.text, call.t) = None
    /\ HintMatch(1, call.text) # None
    /\ ~HintSucceeds(1, call.text, call.t)
    /\ call.result # None

====
